---- MODULE Spec2Model ----
(***************************************************************************)
(* LogPrompt: the in-process model cache of main.py with its local-then-   *)
(* remote load policy, the HTTP handlers layered on it, and the bulk       *)
(* downloader of download_models.py, which shares the ./models directory.  *)
(*                                                                         *)
(* The handlers are `async def` functions that never await: the event loop *)
(* runs one handler from its first line to its return before it takes the  *)
(* next request.  `running` is that handler, `pending` the requests that   *)
(* have arrived and wait for the loop.                                     *)
(***************************************************************************)
EXTENDS Integers, Sequences, FiniteSets, TLC

VARIABLES model_cache, disk, pending, running, dl, ever_loaded

vars == <<model_cache, disk, pending, running, dl, ever_loaded>>

(***************************************************************************)
(* Bounds of the model.                                                    *)
(***************************************************************************)
NumModels == 2
MaxPending == 1

(***************************************************************************)
(* The registry.                                                           *)
(***************************************************************************)
ModelNames ==
    <<"bert-base-uncased", "bert-large-uncased", "roberta-base",
      "roberta-large", "albert-base-v1", "albert-base-v2">>

Min(a, b) == IF a < b THEN a ELSE b

\* The registry's names in insertion order (dict order of SUPPORTED_MODELS).
RegistryOrder == SubSeq(ModelNames, 1, Min(NumModels, Len(ModelNames)))

\* name -> remote model identifier.
SUPPORTED_MODELS == [n \in {RegistryOrder[i] : i \in 1..Len(RegistryOrder)} |-> n]

MODELS_DIR == "./models"

\* Names a request can carry that the registry does not hold.
InvalidNames == {"invalid-model"}

RequestNames == DOMAIN SUPPORTED_MODELS \cup InvalidNames

Tasks == {"feature-extraction", "tokenize"}

(***************************************************************************)
(* The ./models directory, as the set of files in it.  A file is the path  *)
(* of its directory followed by the part of the model it holds.            *)
(***************************************************************************)
Parts == {"tokenizer", "model"}

\* os.path.join(MODELS_DIR, model_name)
cache_dir(name) == <<MODELS_DIR, name>>

\* from_pretrained(cache_dir, local_files_only=True): the first argument is a
\* directory, and the files are read from that directory itself.
LocalFile(name, part) == cache_dir(name) \o <<part>>

\* from_pretrained(model_id, cache_dir=cache_dir): the files of the repository
\* model_id are stored in the hub layout below cache_dir.
HubFile(name, model_id, part) == cache_dir(name) \o <<"models--" \o model_id, part>>

(***************************************************************************)
(* Handles, cache entries, requests and responses.                         *)
(***************************************************************************)
NoHandle == <<>>
Handle(kind, name, via) == <<kind, name, via>>

NoEntry == [tokenizer |-> NoHandle, model |-> NoHandle, pipeline |-> NoHandle]

Request(ep, name, task) == [ep |-> ep, name |-> name, task |-> task]

Requests ==
    { Request("predict", n, t) : n \in RequestNames, t \in Tasks }
    \cup { Request("load", n, "") : n \in RequestNames }
    \cup { Request("health", "", ""), Request("models", "", "") }

NoResponse ==
    [status |-> 0, detail |-> <<>>, message |-> <<>>,
     embeddings |-> "absent", features |-> "absent", error |-> "absent",
     raised |-> "none", models_loaded |-> 0, loaded_models |-> {}]

Idle ==
    [ep |-> "none", name |-> "", task |-> "", pc |-> "idle",
     tokenizer |-> NoHandle, model |-> NoHandle, pipe |-> NoHandle,
     local |-> "untried", remote |-> 0,
     model_data |-> NoEntry, resp |-> NoResponse]

Start(req) == [Idle EXCEPT !.ep = req.ep, !.name = req.name, !.task = req.task,
                           !.pc = "entry"]

\* The handler returns (or raises to the framework) and the response is sent;
\* the local variables of the call are gone.
Done(r, resp) ==
    [Idle EXCEPT !.ep = r.ep, !.name = r.name, !.task = r.task,
                 !.pc = "done", !.resp = resp]

(***************************************************************************)
(* The bulk downloader process.                                            *)
(***************************************************************************)
DlInit ==
    [pc |-> "start", i |-> 0, attempted |-> <<>>, failed_models |-> <<>>,
     raised |-> <<>>, exit |-> -1, cause |-> "none"]

\* Model directories filled by hand (save_pretrained) before the programs
\* start: complete for the first name of the registry, the tokenizer alone for
\* the second.
PreloadedDisk ==
    { LocalFile(RegistryOrder[1], p) : p \in Parts }
    \cup { LocalFile(RegistryOrder[i], "tokenizer") : i \in 2..Min(2, Len(RegistryOrder)) }

\* What ./models can hold when the programs start.
InitialDisks == { {}, PreloadedDisk }

EmptyCache == [n \in {} |-> NoEntry]

Init ==
    /\ model_cache = EmptyCache
    /\ disk \in InitialDisks
    /\ pending = {}
    /\ running = Idle
    /\ dl = DlInit
    /\ ever_loaded = {}

(***************************************************************************)
(* The HTTP service.                                                       *)
(***************************************************************************)

\* A request reaches the server and waits for the event loop.
Arrive ==
    \E req \in Requests :
        /\ Cardinality(pending) < MaxPending
        /\ req \notin pending
        /\ pending' = pending \cup {req}
        /\ UNCHANGED <<model_cache, disk, running, dl, ever_loaded>>

\* The event loop is free and runs the next handler.
Dispatch ==
    \E req \in pending :
        /\ running.pc \in {"idle", "done"}
        /\ pending' = pending \ {req}
        /\ running' = Start(req)
        /\ UNCHANGED <<model_cache, disk, dl, ever_loaded>>

\* str(HTTPException(status_code, detail))
HTTPExceptionStr(status, detail) == <<status \o ":">> \o detail

\* Mutant of PredictUnsupported: the HTTPException is caught by a broad
\* `except Exception` and comes back as any other failure of the handler.
PredictUnsupportedCaught(r) ==
    Done(r, [NoResponse EXCEPT
                !.status = 200, !.embeddings = "null", !.features = "null",
                !.error = "400: Model not supported", !.raised = "unsupported"])

\* predict: the `not in SUPPORTED_MODELS` test and the HTTPException it raises,
\* which `except HTTPException: raise` hands to the framework.
PredictUnsupported(r) ==
    Done(r, [NoResponse EXCEPT
                !.status = 400,
                !.detail = <<"Model", r.name, "not supported", "Available models:">>
                             \o RegistryOrder,
                !.raised = "unsupported"])

\* load_model: the same test, but the HTTPException is raised inside
\* `try: ... except Exception as e: raise HTTPException(status_code=500, ...)`.
LoadUnsupported(r) ==
    Done(r, [NoResponse EXCEPT
                !.status = 500,
                !.detail = HTTPExceptionStr("400", <<"Model", r.name, "not supported">>),
                !.raised = "unsupported"])

Validate ==
    /\ running.pc = "entry"
    /\ running.ep \in {"predict", "load"}
    /\ running' =
         IF running.name \notin DOMAIN SUPPORTED_MODELS
         THEN IF running.ep = "predict" THEN PredictUnsupported(running)
                                        ELSE LoadUnsupported(running)
         ELSE [running EXCEPT !.pc = "lookup"]
    /\ UNCHANGED <<model_cache, disk, pending, dl, ever_loaded>>

\* Mutant of CacheHit: the cache is never consulted.
CacheHitNever(cache, name) == FALSE

\* if model_name in model_cache
CacheHit(cache, name) == name \in DOMAIN cache

\* download_and_cache_model, up to the start of the local-only load.
Lookup ==
    /\ running.pc = "lookup"
    /\ IF CacheHit(model_cache, running.name)
       THEN running' = [running EXCEPT !.pc = "loaded",
                                       !.model_data = model_cache[running.name]]
       ELSE running' = [running EXCEPT !.pc = "local"]
    /\ UNCHANGED <<model_cache, disk, pending, dl, ever_loaded>>

\* The step of a load block that raises, or "ok".
LoadOutcomes == {"ok", "tokenizer", "model", "pipeline"}

\* Mutant of Assigned: a variable the local-only block has already set is kept
\* (`if tokenizer is None: ...`) instead of being assigned again.
AssignedKeep(r, via, outcome) ==
    [r EXCEPT
       !.tokenizer = IF outcome = "tokenizer" \/ @ # NoHandle THEN @
                     ELSE Handle("tokenizer", r.name, via),
       !.model = IF outcome \in {"tokenizer", "model"} \/ @ # NoHandle THEN @
                 ELSE Handle("model", r.name, via),
       !.pipe = IF outcome = "ok" THEN Handle("pipeline", r.name, via) ELSE @]

\* The handles a load block has assigned to the call's local variables
\* tokenizer, model and pipe when it ends with `outcome`.
Assigned(r, via, outcome) ==
    [r EXCEPT
       !.tokenizer = IF outcome = "tokenizer" THEN @
                     ELSE Handle("tokenizer", r.name, via),
       !.model = IF outcome \in {"tokenizer", "model"} THEN @
                 ELSE Handle("model", r.name, via),
       !.pipe = IF outcome = "ok" THEN Handle("pipeline", r.name, via) ELSE @]

\* The entry built from the three local variables of the call.
NewEntry(r) == [tokenizer |-> r.tokenizer, model |-> r.model, pipeline |-> r.pipe]

\* Mutant of CacheInsert: the cache keeps the newest entry alone.
CacheInsertEvict(cache, name, entry) == [n \in {name} |-> entry]

\* model_cache[model_name] = {...}
CacheInsert(cache, name, entry) ==
    [n \in DOMAIN cache \cup {name} |-> IF n = name THEN entry ELSE cache[n]]

\* Mutant of CacheAfterLoad: the insertion is not skipped when the block raised.
CacheAfterLoadAlways(cache, r, outcome) == CacheInsert(cache, r.name, NewEntry(r))

\* The cache when a load block has ended with `outcome`: the insertion follows
\* the blocks and is reached only when neither raised out of the outer try.
CacheAfterLoad(cache, r, outcome) ==
    IF outcome = "ok" THEN CacheInsert(cache, r.name, NewEntry(r)) ELSE cache

\* return model_cache[model_name]
Returned(r, cache) == [r EXCEPT !.pc = "loaded", !.model_data = cache[r.name]]

\* Names loaded with success in this process (history, not program state).
NoteLoaded(name, outcome) ==
    ever_loaded' = IF outcome = "ok" THEN ever_loaded \cup {name} ELSE ever_loaded

\* Mutant of LocalOutcome: only the tokenizer's load is inside the inner try, so
\* a missing model file does not count as a failure of the local-only block.
LocalOutcomeTokenizerOnly(d, name, pipe_ok) ==
    IF LocalFile(name, "tokenizer") \notin d THEN "tokenizer"
    ELSE IF ~pipe_ok THEN "pipeline"
    ELSE "ok"

\* The local-only block: the two from_pretrained(cache_dir, local_files_only=True)
\* calls read the files of cache_dir, then the pipeline is built.
LocalOutcome(d, name, pipe_ok) ==
    IF LocalFile(name, "tokenizer") \notin d THEN "tokenizer"
    ELSE IF LocalFile(name, "model") \notin d THEN "model"
    ELSE IF ~pipe_ok THEN "pipeline"
    ELSE "ok"

\* The inner try: load from the local directory; any exception of it is caught
\* and the remote block runs.
LocalLoad ==
    /\ running.pc = "local"
    /\ \E pipe_ok \in BOOLEAN :
         LET outcome == LocalOutcome(disk, running.name, pipe_ok)
             r == [Assigned(running, "local", outcome) EXCEPT !.local = outcome]
         IN /\ model_cache' = CacheAfterLoad(model_cache, r, outcome)
            /\ running' = IF outcome = "ok" THEN Returned(r, model_cache')
                                            ELSE [r EXCEPT !.pc = "remote"]
            /\ NoteLoaded(running.name, outcome)
    /\ UNCHANGED <<disk, pending, dl>>

\* The files the remote block has stored below cache_dir when it ends so.
HubWrites(name, model_id, outcome) ==
    CASE outcome = "tokenizer" -> {}
      [] outcome = "model" -> {HubFile(name, model_id, "tokenizer")}
      [] OTHER -> {HubFile(name, model_id, "tokenizer"), HubFile(name, model_id, "model")}

\* str(e) of the exception the load raised.
LoadErrorText(outcome) == "load " \o outcome \o " failed"

\* predict: `except Exception as e` builds a ModelResponse with error=str(e).
PredictError(r, text, site) ==
    Done(r, [NoResponse EXCEPT !.status = 200, !.embeddings = "null",
                               !.features = "null", !.error = text, !.raised = site])

\* load_model: `except Exception as e: raise HTTPException(status_code=500, ...)`.
LoadError(r, text, site) ==
    Done(r, [NoResponse EXCEPT !.status = 500, !.detail = <<text>>, !.raised = site])

\* Mutant of LoadFailed: predict lets the exception of the load through, as
\* load_model does.
LoadFailedAs500(r, outcome) == LoadError(r, LoadErrorText(outcome), "load")

\* The exception of download_and_cache_model reaches the handler that called it.
LoadFailed(r, outcome) ==
    IF r.ep = "predict"
    THEN PredictError(r, LoadErrorText(outcome), "load")
    ELSE LoadError(r, LoadErrorText(outcome), "load")

\* The except branch of the inner try: load by model_id with cache_dir as the
\* download directory; an exception here is logged and re-raised.
RemoteLoad ==
    /\ running.pc = "remote"
    /\ \E outcome \in LoadOutcomes :
         LET r == [Assigned(running, "remote", outcome) EXCEPT !.remote = @ + 1]
         IN /\ disk' = disk \cup
                  HubWrites(running.name, SUPPORTED_MODELS[running.name], outcome)
            /\ model_cache' = CacheAfterLoad(model_cache, r, outcome)
            /\ running' = IF outcome = "ok" THEN Returned(r, model_cache')
                                            ELSE LoadFailed(r, outcome)
            /\ NoteLoaded(running.name, outcome)
    /\ UNCHANGED <<pending, dl>>

\* load_model after download_and_cache_model returned.
LoadModelReturn ==
    /\ running.pc = "loaded"
    /\ running.ep = "load"
    /\ running' = Done(running,
          [NoResponse EXCEPT !.status = 200,
                             !.message = <<"Model", running.name, "loaded successfully">>])
    /\ UNCHANGED <<model_cache, disk, pending, dl, ever_loaded>>

\* What pipeline_obj(text) can return: the List[List[float]] the response model
\* declares, or the nested list with a leading batch axis that the
\* feature-extraction pipeline of transformers returns for one string.
PipelineOutputs == {"tokens x hidden", "batch x tokens x hidden"}

\* ModelResponse.embeddings: Optional[List[List[float]]] = None, validated by
\* pydantic when the response object is constructed.
ValidEmbeddings(v) == v = "tokens x hidden"

\* predict, task == "feature-extraction": the pipeline call and the response.
PredictEmbeddings ==
    /\ running.pc = "loaded"
    /\ running.ep = "predict"
    /\ running.task = "feature-extraction"
    /\ \E out \in PipelineOutputs \cup {"raise"} :
         running' =
           IF out = "raise"
           THEN PredictError(running, "pipeline raised", "engine")
           ELSE IF ValidEmbeddings(out)
           THEN Done(running, [NoResponse EXCEPT !.status = 200, !.embeddings = out,
                                                 !.features = "null", !.error = "null"])
           ELSE PredictError(running, "validation error for ModelResponse", "response")
    /\ UNCHANGED <<model_cache, disk, pending, dl, ever_loaded>>

\* predict, any other task: tokenizer.tokenize and the features response.
PredictFeatures ==
    /\ running.pc = "loaded"
    /\ running.ep = "predict"
    /\ running.task # "feature-extraction"
    /\ \E out \in {"tokens", "raise"} :
         running' =
           IF out = "raise"
           THEN PredictError(running, "tokenize raised", "engine")
           ELSE Done(running, [NoResponse EXCEPT !.status = 200, !.embeddings = "null",
                                                 !.features = "value", !.error = "null"])
    /\ UNCHANGED <<model_cache, disk, pending, dl, ever_loaded>>

\* GET /health
health_check ==
    /\ running.pc = "entry"
    /\ running.ep = "health"
    /\ running' = Done(running,
          [NoResponse EXCEPT !.status = 200,
                             !.models_loaded = Cardinality(DOMAIN model_cache)])
    /\ UNCHANGED <<model_cache, disk, pending, dl, ever_loaded>>

\* GET /models
list_models ==
    /\ running.pc = "entry"
    /\ running.ep = "models"
    /\ running' = Done(running,
          [NoResponse EXCEPT !.status = 200, !.loaded_models = DOMAIN model_cache])
    /\ UNCHANGED <<model_cache, disk, pending, dl, ever_loaded>>

\* The service process ends and a new one starts: module state is rebuilt
\* (model_cache = {}), the files of ./models stay.
Restart ==
    /\ model_cache' = EmptyCache
    /\ pending' = {}
    /\ running' = Idle
    /\ ever_loaded' = {}
    /\ UNCHANGED <<disk, dl>>

(***************************************************************************)
(* download_models.py                                                      *)
(***************************************************************************)

\* sys.exit(code), or the return of main() with code 0.
DlExit(d, code, cause) == [d EXCEPT !.pc = "exited", !.exit = code, !.cause = cause]

\* ensure_models_directory() and the banner; an OSError of os.makedirs leaves
\* download_all_models and reaches main's `except Exception`.
DlStart ==
    /\ dl.pc = "start"
    /\ \E ok \in BOOLEAN :
         dl' = IF ok THEN [dl EXCEPT !.pc = "loop"] ELSE DlExit(dl, 1, "unexpected")
    /\ UNCHANGED <<model_cache, disk, pending, running, ever_loaded>>

\* The step of download_model that raises, or "ok".
DlOutcomes == LoadOutcomes

\* The files download_model(model_name, model_id) has stored when it ends so.
DownloadWrites(name, model_id, outcome) ==
    CASE outcome = "tokenizer" -> {}
      [] outcome = "model" -> {HubFile(name, model_id, "tokenizer")}
      [] OTHER -> {HubFile(name, model_id, "tokenizer"), HubFile(name, model_id, "model")}

\* str(e) of the exception download_model re-raises.
DlErrorText(outcome) == "download " \o outcome \o " failed"

\* Mutant of RecordFailure: a failed model ends the run with exit code 1.
RecordFailureFatal(d, name, outcome) ==
    [d EXCEPT !.failed_models = Append(@, <<name, DlErrorText(outcome)>>),
              !.pc = "exited", !.exit = 1]

\* The `except Exception as e` branch of the loop.
RecordFailure(d, name, outcome) ==
    [d EXCEPT !.failed_models = Append(@, <<name, DlErrorText(outcome)>>)]

\* One iteration of the loop of download_all_models.
DlDownloadModel ==
    /\ dl.pc = "loop"
    /\ dl.i < Len(RegistryOrder)
    /\ \E outcome \in DlOutcomes :
         LET name == RegistryOrder[dl.i + 1]
             d1 == [dl EXCEPT !.i = @ + 1, !.attempted = Append(@, name)]
         IN /\ disk' = disk \cup DownloadWrites(name, SUPPORTED_MODELS[name], outcome)
            /\ dl' = IF outcome = "ok"
                     THEN d1
                     ELSE RecordFailure([d1 EXCEPT !.raised = Append(@, <<name, outcome>>)],
                                        name, outcome)
    /\ UNCHANGED <<model_cache, pending, running, ever_loaded>>

\* The loop is over: the summary is printed and main returns.
DlSummary ==
    /\ dl.pc = "loop"
    /\ dl.i = Len(RegistryOrder)
    /\ dl' = DlExit(dl, 0, "none")
    /\ UNCHANGED <<model_cache, disk, pending, running, ever_loaded>>

\* KeyboardInterrupt: not an Exception, so neither download_model nor the loop
\* catches it; main prints and calls sys.exit(1).  Taken between two iterations:
\* the files an interrupted download leaves are those a failed one leaves.
DlInterrupt ==
    /\ dl.pc \in {"start", "loop"}
    /\ dl' = DlExit(dl, 1, "interrupt")
    /\ UNCHANGED <<model_cache, disk, pending, running, ever_loaded>>

Next ==
    \/ Arrive
    \/ Dispatch
    \/ Validate
    \/ Lookup
    \/ LocalLoad
    \/ RemoteLoad
    \/ LoadModelReturn
    \/ PredictEmbeddings
    \/ PredictFeatures
    \/ health_check
    \/ list_models
    \/ Restart
    \/ DlStart
    \/ DlDownloadModel
    \/ DlSummary
    \/ DlInterrupt

Spec == Init /\ [][Next]_vars

NextService ==
    \/ Arrive
    \/ Dispatch
    \/ Validate
    \/ Lookup
    \/ LocalLoad
    \/ RemoteLoad
    \/ LoadModelReturn
    \/ PredictEmbeddings
    \/ PredictFeatures
    \/ health_check
    \/ list_models
    \/ Restart

SpecService == Init /\ [][NextService]_vars

NextDl ==
    \/ DlStart
    \/ DlDownloadModel
    \/ DlSummary
    \/ DlInterrupt

SpecDl == Init /\ [][NextDl]_vars

(***************************************************************************)
(* Properties.                                                             *)
(***************************************************************************)

\* A step of the handler the event loop is running (not a restart, not the
\* start of the next handler).
HandlerStep == running' # running /\ running'.pc \notin {"idle", "entry"}

\* s holds sub as a run of consecutive elements.
Contains(s, sub) ==
    \E i \in 1..(Len(s) - Len(sub) + 1) : SubSeq(s, i, i + Len(sub) - 1) = sub

Populated(field) == field \notin {"absent", "null"}

C1_Step ==
    /\ (running.pc \in {"local", "remote"} /\ running'.pc = "loaded")
          => /\ running.name \in DOMAIN model_cache'
             /\ running'.model_data = model_cache'[running.name]
    /\ (running.pc = "lookup" /\ running.name \in DOMAIN model_cache /\ HandlerStep)
          => /\ running'.pc = "loaded"
             /\ running'.model_data = model_cache[running.name]
             /\ running'.local = "untried"
             /\ running'.remote = 0
             /\ UNCHANGED <<model_cache, disk>>

\* C1: a load that succeeds inserts its name into model_cache and returns the
\* inserted entry; a call for a cached name returns the cached entry with no
\* local-only load and no remote load, and no load block ever runs for a name
\* that is in the cache.
C1_CachedNeverReloaded ==
    /\ [](running.pc \in {"local", "remote"} => running.name \notin DOMAIN model_cache)
    /\ [][C1_Step]_vars

\* A call was answered from the cache.
C1_Witness ==
    /\ running.pc = "loaded"
    /\ running.model_data = model_cache[running.name]
    /\ running.local = "untried"
    /\ running.remote = 0

C2_Step ==
    (running.ep = "predict" /\ running.name \notin DOMAIN SUPPORTED_MODELS /\ HandlerStep)
        => UNCHANGED <<model_cache, disk, ever_loaded>>

\* C2: POST /predict with a name the registry does not hold is answered 400
\* with a detail that holds "<name> not supported"; the handler never reaches
\* download_and_cache_model, and model_cache and ./models are left as they were.
C2_PredictUnsupported400 ==
    /\ []((running.ep = "predict" /\ running.name \notin DOMAIN SUPPORTED_MODELS)
            => /\ running.pc \in {"entry", "done"}
               /\ running.pc = "done"
                    => /\ running.resp.status = 400
                       /\ Contains(running.resp.detail, <<running.name, "not supported">>)
                       /\ ~Populated(running.resp.error))
    /\ [][C2_Step]_vars

\* The 400 was sent while the cache held a model.
C2_Witness ==
    /\ running.ep = "predict"
    /\ running.name \in InvalidNames
    /\ running.pc = "done"
    /\ running.resp.status = 400
    /\ DOMAIN model_cache # {}

\* C3: POST /load-model/{name} with a name the registry does not hold is
\* answered 400, and the endpoint answers 500 only when a registry name failed
\* to load.
C3_LoadUnsupported400 ==
    (running.ep = "load" /\ running.pc = "done")
        => /\ running.name \notin DOMAIN SUPPORTED_MODELS => running.resp.status = 400
           /\ running.resp.status = 500
                => /\ running.name \in DOMAIN SUPPORTED_MODELS
                   /\ running.resp.raised = "load"

C4_Step ==
    /\ (running.pc = "remote" /\ running'.pc = "done")
          => /\ running.local \in {"tokenizer", "model", "pipeline"}
             /\ UNCHANGED model_cache
             /\ running.name \notin DOMAIN model_cache'
             /\ running'.resp.raised = "load"
             /\ IF running.ep = "predict"
                THEN running'.resp.error \in {LoadErrorText(o) : o \in LoadOutcomes \ {"ok"}}
                ELSE running'.resp.status = 500
    /\ (running.pc = "lookup" /\ running.name \notin DOMAIN model_cache /\ HandlerStep)
          => /\ running'.pc = "local"
             /\ running'.local = "untried"
             /\ running'.remote = 0

\* C4: when the local-only load and the remote load both fail, the exception
\* reaches the caller of download_and_cache_model, model_cache is unchanged and
\* does not hold the name, and every call for a name that is not in the cache
\* starts with the local-only load.
C4_FailedLoadNotCached == [][C4_Step]_vars

\* A load has failed, its name is not cached, and a later request for the same
\* name waits for the event loop.
C4_Witness ==
    /\ running.pc = "done"
    /\ running.resp.raised = "load"
    /\ running.name \notin DOMAIN model_cache
    /\ \E req \in pending : req.name = running.name

\* C5: a 200 response of POST /predict has exactly one of embeddings, features
\* and error populated: embeddings for task "feature-extraction" when nothing
\* raised, features for any other task when nothing raised, and error only when
\* the load or the engine call raised.
C5_ExactlyOnePopulated ==
    (running.ep = "predict" /\ running.pc = "done" /\ running.resp.status = 200)
        => LET e == Populated(running.resp.embeddings)
               f == Populated(running.resp.features)
               x == Populated(running.resp.error)
           IN /\ Cardinality({k \in {"e", "f", "x"} :
                                 \/ k = "e" /\ e
                                 \/ k = "f" /\ f
                                 \/ k = "x" /\ x}) = 1
              /\ e <=> (running.task = "feature-extraction" /\ running.resp.raised = "none")
              /\ f <=> (running.task # "feature-extraction" /\ running.resp.raised = "none")
              /\ x => running.resp.raised \in {"load", "engine"}

\* C6: a failed load of a registry name is answered 500 by load_model and 200
\* with error by predict; an exception of the engine on a cached model is
\* answered 200 with error by predict; after either the event loop is free for
\* the next request.
C6_FailuresSurfacedPerEndpoint ==
    (running.pc = "done" /\ running.resp.raised \in {"load", "engine"})
        => /\ running.name \in DOMAIN SUPPORTED_MODELS
           /\ running.ep = "load"
                => running.resp.raised = "load" /\ running.resp.status = 500
           /\ running.ep = "predict"
                => /\ running.resp.status = 200
                   /\ Populated(running.resp.error)
                   /\ ~Populated(running.resp.embeddings)
                   /\ ~Populated(running.resp.features)
           /\ running.resp.raised = "engine"
                => running.ep = "predict" /\ running.name \in DOMAIN model_cache
           /\ running.ep \in {"load", "predict"}
           /\ pending # {} => ENABLED Dispatch
           /\ Cardinality(pending) < MaxPending => ENABLED Arrive

\* predict has answered a failed load with 200 and error, and the next request
\* is waiting.
C6_Witness ==
    /\ running.pc = "done"
    /\ running.ep = "predict"
    /\ running.resp.raised = "load"
    /\ running.resp.status = 200
    /\ pending # {}

C7_Step ==
    /\ running'.pc # "idle"
          => /\ DOMAIN model_cache \subseteq DOMAIN model_cache'
             /\ \A n \in DOMAIN model_cache : model_cache'[n] = model_cache[n]
    /\ (HandlerStep /\ (\/ running.name \in DOMAIN model_cache
                        \/ running.name \notin DOMAIN SUPPORTED_MODELS
                        \/ running'.pc = "done"))
          => DOMAIN model_cache' = DOMAIN model_cache

\* C7: models_loaded of GET /health is the number of distinct names loaded with
\* success in the process; within a process no entry is evicted or replaced,
\* the count is unchanged by calls for cached names, by failed loads and by
\* unsupported names, and it never exceeds the size of the registry.
C7_ModelsLoadedCount ==
    /\ []((running.ep = "health" /\ running.pc = "done")
            => /\ running.resp.models_loaded = Cardinality(ever_loaded)
               /\ running.resp.models_loaded <= Len(RegistryOrder))
    /\ [](Cardinality(DOMAIN model_cache) <= Len(RegistryOrder))
    /\ [][C7_Step]_vars

\* /health has reported two loaded models.
C7_Witness ==
    /\ running.ep = "health"
    /\ running.pc = "done"
    /\ running.resp.models_loaded = 2
    /\ Cardinality(ever_loaded) = 2

\* C8: the downloader attempts the registry's entries once each and in order,
\* failures or not; failed_models holds the names whose download raised, each
\* with its error text; the exit code is 1 only after an interrupt or an
\* exception that left download_all_models, and a run that ends with code 0 has
\* attempted every entry.
C8_DownloaderIsolatesFailures ==
    /\ dl.attempted = SubSeq(RegistryOrder, 1, dl.i)
    /\ Len(dl.failed_models) = Len(dl.raised)
    /\ \A k \in 1..Len(dl.raised) :
         dl.failed_models[k] = <<dl.raised[k][1], DlErrorText(dl.raised[k][2])>>
    /\ (dl.pc = "loop" /\ dl.i < Len(RegistryOrder)) => ENABLED DlDownloadModel
    /\ dl.pc = "exited"
         => /\ dl.exit \in {0, 1}
            /\ dl.exit = 1 <=> dl.cause \in {"interrupt", "unexpected"}
            /\ dl.exit = 0 => dl.attempted = RegistryOrder

\* The first download failed, a later one succeeded, and the run ended with 0.
C8_Witness ==
    /\ dl.pc = "exited"
    /\ dl.exit = 0
    /\ Len(dl.failed_models) >= 1
    /\ dl.failed_models[1][1] = RegistryOrder[1]
    /\ Len(dl.failed_models) < Len(dl.attempted)

\* The downloader's remote load of `name` has succeeded.
DlFetched(name) ==
    /\ \E k \in 1..Len(dl.attempted) : dl.attempted[k] = name
    /\ \A j \in 1..Len(dl.raised) : dl.raised[j][1] # name

\* C9: once a remote load of a name has succeeded and written into
\* ./models/<name>/ (here: the bulk downloader's), the local-only load of that
\* name reads its tokenizer and its model from that directory.
C9_LocalLoadAfterRemote ==
    [][(running.pc = "local" /\ HandlerStep /\ DlFetched(running.name))
          => running'.local \notin {"tokenizer", "model"}]_vars

\* The three handles of an entry are those of one load of `name`.
Complete(entry, name) ==
    \E via \in {"local", "remote"} :
        entry = [tokenizer |-> Handle("tokenizer", name, via),
                 model |-> Handle("model", name, via),
                 pipeline |-> Handle("pipeline", name, via)]

\* C10: every entry of model_cache, and every entry download_and_cache_model
\* returns, has tokenizer, model and pipeline set by the same load block of
\* that name; the cache holds one entry per name.
C10_EntriesComplete ==
    /\ \A n \in DOMAIN model_cache : Complete(model_cache[n], n)
    /\ running.pc = "loaded" => Complete(running.model_data, running.name)

\* A remote load has replaced the tokenizer the local-only block had set, and
\* another request for the same name waits.
C10_Witness ==
    /\ running.pc = "loaded"
    /\ running.local = "model"
    /\ running.name \in DOMAIN model_cache
    /\ \E req \in pending : req.name = running.name

\* The request needs nothing of the model `name`: /health, /models, or a predict
\* on another model that is already cached.
IndependentOf(req, name) ==
    \/ req.ep \in {"health", "models"}
    \/ /\ req.ep = "predict"
       /\ req.name # name
       /\ req.name \in DOMAIN model_cache

\* The first-time load of the running request's model is in progress.
LoadInProgress ==
    /\ running.pc \in {"local", "remote"}
    /\ running.name \notin DOMAIN model_cache

\* C11: while a request is in its first-time load of a model, a request that
\* has arrived meanwhile and does not depend on that model can be taken up by
\* the server (and so completed) before the load ends.
C11_LoadBlocksOnlySameName ==
    LoadInProgress
        => \A req \in pending :
              IndependentOf(req, running.name)
                  => ENABLED (Dispatch /\ running' = Start(req))

\* The local-only block cannot read the tokenizer or the model of `name`.
LocalFilesMissing(name) == \E p \in Parts : LocalFile(name, p) \notin disk

C12_Step ==
    /\ (running.pc = "lookup" /\ running.name \notin DOMAIN model_cache /\ HandlerStep)
          => running'.pc = "local" /\ running'.remote = 0
    /\ (running.pc = "local" /\ HandlerStep)
          => /\ running'.pc \in {"loaded", "remote"}
             /\ running'.pc = "remote"
                  <=> running'.local \in {"tokenizer", "model", "pipeline"}
             /\ running'.pc = "loaded" <=> running'.local = "ok"
             /\ LocalFilesMissing(running.name) => running'.pc = "remote"
             /\ running'.remote = 0
             /\ UNCHANGED disk
    /\ (running.pc = "remote" /\ HandlerStep)
          => /\ running'.pc \in {"loaded", "done"}
             /\ running'.pc = "loaded" => running'.remote = 1

\* C12: on a miss the call starts with the local-only block; the remote block
\* runs if and only if the local-only block raised, at its tokenizer, model or
\* pipeline step; it runs at most once in a call; a local-only block that
\* succeeds is followed by no remote load and leaves ./models as it was.
C12_LocalFirstThenRemoteOnce ==
    /\ [](running.pc = "remote"
            => /\ running.local \in {"tokenizer", "model", "pipeline"}
               /\ running.remote = 0)
    /\ [](running.pc = "loaded"
            => /\ running.remote \in {0, 1}
               /\ running.local = "ok" => running.remote = 0
               /\ running.remote = 1
                    => running.local \in {"tokenizer", "model", "pipeline"})
    /\ [][C12_Step]_vars

\* The local-only block read both files and raised at the pipeline; the one
\* remote load that followed succeeded.
C12_Witness ==
    /\ running.pc = "loaded"
    /\ running.local = "pipeline"
    /\ running.remote = 1
    /\ running.name \in DOMAIN model_cache

====
